---- MODULE Spec2Model ----
(***************************************************************************)
(* Model of the SongamizerApp screen controller (src/static/js/app.js).    *)
(*                                                                         *)
(* One behaviour is one lifetime of the page: the constructor's field      *)
(* initialisation (Init), init() running checkAuthStatus, then user clicks *)
(* and the continuations of the async handlers after their awaited fetch.  *)
(* Every async handler is two steps: the synchronous part up to the first  *)
(* await (the request is put in flight) and the continuation that runs     *)
(* when the backend answers.  A request that is never answered just stays  *)
(* in flight.  The backend is opaque: each answer is drawn from the set of *)
(* outcomes the fetch API can produce.                                     *)
(*                                                                         *)
(* Buttons are clickable on the screen bindEvents names for them (the      *)
(* "Connect Screen", "Playlist Screen", "Game Screen", "Reveal Screen"     *)
(* comments); showScreen leaves exactly one screen active.  The header     *)
(* button is clickable on every screen.                                    *)
(***************************************************************************)
EXTENDS Integers, Sequences, FiniteSets, TLC

\* ---------------------------------------------------------------- bounds
MaxPlays == 2        \* successful track fetches modelled between resets
MaxInflight == 2     \* requests in flight at the same time
MaxList == 2         \* length of a playlist collection the backend returns

\* ------------------------------------------------------- values and inputs
Null == "null"                          \* JS null / undefined / absent field
Screens == {"connect", "playlist", "game", "reveal"}
NumColors == 8                          \* cardColors.length

PlaylistIds == {"p1", "p2"}
Tracks == {"T1", "T2"}                  \* T1: year and stream_url, T2: neither

\* JS truthiness of a string-or-null value: if (v) { ... }
Truthy(v) == v # Null /\ v # ""

\* fields of the two tracks the backend may return
TrackYear(t) == IF t = "T1" THEN "1999" ELSE Null
TrackStreamUrl(t) == IF t = "T1" THEN "stream:T1" ELSE Null
TrackSpotifyUrl(t) == IF t = "T1" THEN "spotify:T1" ELSE Null

\* value of the session_id query parameter: absent, empty, or a token
UrlSessionIds == {Null, "", "abc123"}
\* value already stored under spotify_session when the page loads
StoredTokens == {Null, "old"}
\* what prompt() returns: cancelled, empty input, a URL
PromptResults == {Null, "", "https://playlist"}

ReqKinds == {"authorize", "load", "add", "remove", "track", "reset"}

\* outcomes of an awaited fetch
\*   neterr : fetch() rejects            badjson : response.json() rejects
StatusOutcomes == {"neterr", "ok", "notok"}
AuthOutcomes == {"neterr", "badjson", "nourl", "emptyurl", "url"}

RECURSIVE SeqsUpTo(_, _)
SeqsUpTo(S, n) ==
    IF n = 0 THEN {<<>>}
    ELSE LET shorter == SeqsUpTo(S, n - 1)
         IN shorter \cup {Append(s, x) : s \in shorter, x \in S}

IsDistinct(s) == \A i, j \in 1..Len(s) : i # j => s[i] # s[j]
LoadOutcomes ==
    {[kind |-> k, playlists |-> <<>>] : k \in {"neterr", "badjson", "nolist"}}
    \cup {[kind |-> "list", playlists |-> l] : l \in {x \in SeqsUpTo(PlaylistIds, MaxList) : IsDistinct(x)}}

TrackOutcomes ==
    {[kind |-> k, track |-> Null, playOk |-> FALSE] : k \in {"neterr", "badjson", "notrack"}}
    \cup {[kind |-> "track", track |-> t, playOk |-> b] : t \in Tracks, b \in BOOLEAN}

\* alert() texts
NoAlert == "none"
AlertConnect == "Failed to connect to Spotify. Please try again."
AlertAddCheck == "Failed to add playlist. Please check the URL and try again."
AlertAddRetry == "Failed to add playlist. Please try again."
AlertSelect == "Please select a playlist first."
AlertLoadTrack == "Failed to load track. Please try again."
AlertNoTrack == "No track loaded. Please try again."

\* ------------------------------------------------------------------ state
VARIABLES
    page,               \* "loading" (constructed, init() not run), "running", "away"
    localStorage,       \* value stored under spotify_session
    currentScreen, selectedPlaylist, currentTrack, tracksPlayed, currentColorIndex,
    audioSrc, audioPaused,          \* the audioPlayer element
    playlistList,       \* rendered .playlist-item elements, as their playlist ids
    selectedItems,      \* indices of the items carrying class "selected"
    artistName, releaseYear, songName,   \* reveal screen text
    tracksPlayedText, revealTracksPlayedText, revealCardClass,
    pending,            \* requests in flight, per kind
    alert,              \* text of the alert() raised by the last step
    \* the backend's side of the playlist requests; Spec leaves the backend
    \* opaque and these empty, SpecBackend runs the backend the spec describes
    backend,            \* the playlist collection the backend holds
    snapshots,          \* answers to GET /api/playlists made, not yet delivered
    removeIds,          \* ids of the DELETE requests in flight
    \* the history of the game requests; Spec leaves it unrecorded,
    \* SpecHistory records it
    resetDone,          \* resetGame has reset the game, startGame not clicked since
    latestPending,      \* the track fetch issued last has not been answered
    shownLatest         \* currentTrack is the answer to the track fetch issued last

vars == <<page, localStorage, currentScreen, selectedPlaylist, currentTrack,
          tracksPlayed, currentColorIndex, audioSrc, audioPaused, playlistList,
          selectedItems, artistName, releaseYear, songName, tracksPlayedText,
          revealTracksPlayedText, revealCardClass, pending, alert>>

gameVars == <<currentTrack, tracksPlayed, audioSrc, audioPaused,
              tracksPlayedText, revealTracksPlayedText>>
revealVars == <<artistName, releaseYear, songName, revealCardClass, currentColorIndex>>
listVars == <<playlistList, selectedItems, selectedPlaylist>>

history == <<resetDone, latestPending, shownLatest>>
observers == <<backend, snapshots, removeIds, history>>
allVars == <<vars, observers>>

PendingTotal ==
    pending["authorize"] + pending["load"] + pending["add"]
    + pending["remove"] + pending["track"] + pending["reset"]

CanSend == PendingTotal < MaxInflight

Init ==
    /\ page = "loading"
    /\ localStorage \in StoredTokens
    /\ currentScreen = "connect"
    /\ selectedPlaylist = Null
    /\ currentTrack = Null
    /\ tracksPlayed = 0
    /\ currentColorIndex = 0
    /\ audioSrc = ""
    /\ audioPaused = TRUE
    /\ playlistList = <<>>
    /\ selectedItems = {}
    /\ artistName = Null
    /\ releaseYear = Null
    /\ songName = Null
    /\ tracksPlayedText = 0
    /\ revealTracksPlayedText = 0
    /\ revealCardClass = Null
    /\ pending = [k \in ReqKinds |-> 0]
    /\ alert = NoAlert
    /\ backend = <<>>
    /\ snapshots = <<>>
    /\ removeIds = <<>>
    /\ resetDone = FALSE
    /\ latestPending = FALSE
    /\ shownLatest = FALSE


\* fields of a track shown on the reveal card
TrackArtist(t) == IF t = "T1" THEN "artist:T1" ELSE "artist:T2"
TrackName(t) == IF t = "T1" THEN "name:T1" ELSE "name:T2"

cardColors ==
    <<"card-color-1", "card-color-2", "card-color-3", "card-color-4",
      "card-color-5", "card-color-6", "card-color-7", "card-color-8">>

Send(k) == [pending EXCEPT ![k] = @ + 1]
Recv(k) == [pending EXCEPT ![k] = @ - 1]
Answer(k, issued) == [pending EXCEPT ![k] = @ - 1, ![issued] = @ + 1]

\* ----------------------------------------------------------------- startup
\* checkAuthStatus without the localStorage.setItem call
checkAuthStatusNoPersist(sessionId) ==
    /\ page = "loading"
    /\ page' = "running"
    /\ IF Truthy(sessionId) \/ Truthy(localStorage)
       THEN /\ pending' = Send("load")
            /\ currentScreen' = "playlist"
       ELSE /\ currentScreen' = "connect"
            /\ UNCHANGED pending
    /\ alert' = NoAlert
    /\ UNCHANGED <<localStorage, gameVars, revealVars, listVars>>

\* init(): bindEvents() then checkAuthStatus(); runs inside the constructor
checkAuthStatus(sessionId) ==
    /\ page = "loading"
    /\ page' = "running"
    /\ IF Truthy(sessionId)
       THEN /\ localStorage' = sessionId
            /\ pending' = Send("load")
            /\ currentScreen' = "playlist"
       ELSE IF Truthy(localStorage)
       THEN /\ pending' = Send("load")
            /\ currentScreen' = "playlist"
            /\ UNCHANGED localStorage
       ELSE /\ currentScreen' = "connect"
            /\ UNCHANGED <<localStorage, pending>>
    /\ alert' = NoAlert
    /\ UNCHANGED <<gameVars, revealVars, listVars>>

\* ---------------------------------------------------------- connect screen
connectToSpotify ==
    /\ page = "running" /\ currentScreen = "connect"
    /\ CanSend
    /\ pending' = Send("authorize")
    /\ alert' = NoAlert
    /\ UNCHANGED <<page, localStorage, currentScreen, gameVars, revealVars, listVars>>

\* after await fetch / await response.json()
connectToSpotifyResp(o) ==
    /\ page = "running"
    /\ pending["authorize"] > 0
    /\ pending' = Recv("authorize")
    /\ page' = IF o = "url" THEN "away" ELSE page
    /\ alert' = IF o \in {"neterr", "badjson"} THEN AlertConnect ELSE NoAlert
    /\ UNCHANGED <<localStorage, currentScreen, gameVars, revealVars, listVars>>

\* --------------------------------------------------------- playlist screen
renderPlaylists(playlists) ==
    /\ playlistList' = playlists
    /\ selectedItems' = {}

\* loadPlaylists rendering an empty list when no collection arrived
loadPlaylistsRespClearsOnError(o) ==
    /\ page = "running"
    /\ pending["load"] > 0
    /\ pending' = Recv("load")
    /\ renderPlaylists(o.playlists)
    /\ alert' = NoAlert
    /\ UNCHANGED <<page, localStorage, currentScreen, selectedPlaylist, gameVars, revealVars>>

loadPlaylistsResp(o) ==
    /\ page = "running"
    /\ pending["load"] > 0
    /\ pending' = Recv("load")
    /\ IF o.kind = "list"
       THEN renderPlaylists(o.playlists)
       ELSE UNCHANGED <<playlistList, selectedItems>>
    /\ alert' = NoAlert
    /\ UNCHANGED <<page, localStorage, currentScreen, selectedPlaylist, gameVars, revealVars>>

\* selectPlaylist without the loop that removes the previous selection
selectPlaylistKeepsOld(i) ==
    /\ selectedItems' = selectedItems \cup {i}
    /\ selectedPlaylist' = playlistList[i]

\* class "selected" is taken off every item, then put on the clicked one
selectPlaylist(i) ==
    /\ selectedItems' = (selectedItems \ (1..Len(playlistList))) \cup {i}
    /\ selectedPlaylist' = playlistList[i]

\* click on a rendered item, outside its remove button
selectPlaylistClick(i) ==
    /\ page = "running" /\ currentScreen = "playlist"
    /\ i \in 1..Len(playlistList)
    /\ selectPlaylist(i)
    /\ alert' = NoAlert
    /\ UNCHANGED <<page, localStorage, currentScreen, playlistList, gameVars, revealVars, pending>>

addPlaylist(url) ==
    /\ page = "running" /\ currentScreen = "playlist"
    /\ Truthy(url) => CanSend
    /\ pending' = IF Truthy(url) THEN Send("add") ELSE pending
    /\ alert' = NoAlert
    /\ UNCHANGED <<page, localStorage, currentScreen, gameVars, revealVars, listVars>>

\* addPlaylist without the else branch: a non-2xx answer goes unnoticed
addPlaylistRespNoElse(o) ==
    /\ page = "running"
    /\ pending["add"] > 0
    /\ pending' = IF o = "ok" THEN Answer("add", "load") ELSE Recv("add")
    /\ alert' = IF o = "neterr" THEN AlertAddRetry ELSE NoAlert
    /\ UNCHANGED <<page, localStorage, currentScreen, gameVars, revealVars, listVars>>

addPlaylistResp(o) ==
    /\ page = "running"
    /\ pending["add"] > 0
    /\ pending' = IF o = "ok" THEN Answer("add", "load") ELSE Recv("add")
    /\ alert' = CASE o = "ok" -> NoAlert
                  [] o = "notok" -> AlertAddCheck
                  [] o = "neterr" -> AlertAddRetry
    /\ UNCHANGED <<page, localStorage, currentScreen, gameVars, revealVars, listVars>>

\* click on the remove button of item i.  The inline onclick calls
\* removePlaylist; the click then bubbles to the item's listener, which
\* selects the item when the click target is the icon inside the button.
removePlaylist(i, onIcon) ==
    /\ page = "running" /\ currentScreen = "playlist"
    /\ i \in 1..Len(playlistList)
    /\ CanSend
    /\ pending' = Send("remove")
    /\ IF onIcon THEN selectPlaylist(i) ELSE UNCHANGED <<selectedItems, selectedPlaylist>>
    /\ alert' = NoAlert
    /\ UNCHANGED <<page, localStorage, currentScreen, playlistList, gameVars, revealVars>>

removePlaylistResp(o) ==
    /\ page = "running"
    /\ pending["remove"] > 0
    /\ pending' = IF o = "ok" THEN Answer("remove", "load") ELSE Recv("remove")
    /\ alert' = NoAlert
    /\ UNCHANGED <<page, localStorage, currentScreen, gameVars, revealVars, listVars>>

\* -------------------------------------------------------------- game loop
showScreen(screenName) == currentScreen' = screenName

\* playRandomTrack up to its await.  Reading selectedPlaylist.id of a null
\* selection throws inside the try block: caught, alerted, nothing sent.
playRandomTrack ==
    IF selectedPlaylist = Null
    THEN /\ alert' = AlertLoadTrack
         /\ UNCHANGED pending
    ELSE /\ alert' = NoAlert
         /\ pending' = Send("track")

\* the model issues a track fetch only while the play counter can still grow
CanFetchTrack == CanSend /\ tracksPlayed + pending["track"] < MaxPlays

\* startGame without its selection check
startGameNoCheck ==
    /\ page = "running" /\ currentScreen = "playlist"
    /\ CanFetchTrack
    /\ showScreen("game")
    /\ playRandomTrack
    /\ UNCHANGED <<page, localStorage, gameVars, revealVars, listVars>>

\* startGame returning without the alert when nothing is selected
startGameSilent ==
    /\ page = "running" /\ currentScreen = "playlist"
    /\ selectedPlaylist # Null => CanFetchTrack
    /\ IF ~Truthy(selectedPlaylist)
       THEN /\ alert' = NoAlert
            /\ UNCHANGED <<currentScreen, pending>>
       ELSE /\ showScreen("game")
            /\ playRandomTrack
    /\ UNCHANGED <<page, localStorage, gameVars, revealVars, listVars>>

startGame ==
    /\ page = "running" /\ currentScreen = "playlist"
    /\ selectedPlaylist # Null => CanFetchTrack
    /\ IF ~Truthy(selectedPlaylist)
       THEN /\ alert' = AlertSelect
            /\ UNCHANGED <<currentScreen, pending>>
       ELSE /\ showScreen("game")
            /\ playRandomTrack
    /\ UNCHANGED <<page, localStorage, gameVars, revealVars, listVars>>

updateTrackCounter ==
    /\ tracksPlayedText' = tracksPlayed'
    /\ revealTracksPlayedText' = tracksPlayed'

\* playRandomTrack counting every answered fetch, with or without a track
playRandomTrackRespCountsAll(o) ==
    /\ page = "running"
    /\ pending["track"] > 0
    /\ pending' = Recv("track")
    /\ tracksPlayed' = tracksPlayed + 1
    /\ updateTrackCounter
    /\ IF o.kind = "track"
       THEN /\ currentTrack' = o.track
            /\ IF Truthy(TrackStreamUrl(o.track))
               THEN /\ audioSrc' = TrackStreamUrl(o.track)
                    /\ audioPaused' = ~o.playOk
               ELSE UNCHANGED <<audioSrc, audioPaused>>
       ELSE UNCHANGED <<currentTrack, audioSrc, audioPaused>>
    /\ alert' = IF o.kind \in {"neterr", "badjson"} THEN AlertLoadTrack ELSE NoAlert
    /\ UNCHANGED <<page, localStorage, currentScreen, revealVars, listVars>>

\* playRandomTrack after await fetch / await response.json()
playRandomTrackResp(o) ==
    /\ page = "running"
    /\ pending["track"] > 0
    /\ pending' = Recv("track")
    /\ IF o.kind = "track"
       THEN /\ currentTrack' = o.track
            /\ tracksPlayed' = tracksPlayed + 1
            /\ updateTrackCounter
            /\ IF Truthy(TrackStreamUrl(o.track))
               THEN /\ audioSrc' = TrackStreamUrl(o.track)
                    /\ audioPaused' = ~o.playOk      \* play() may be rejected
               ELSE UNCHANGED <<audioSrc, audioPaused>>
       ELSE UNCHANGED gameVars
    /\ alert' = IF o.kind \in {"neterr", "badjson"} THEN AlertLoadTrack ELSE NoAlert
    /\ UNCHANGED <<page, localStorage, currentScreen, revealVars, listVars>>

\* getNextCardColor handing out the color after the advance
getNextCardColorAfterAdvance == cardColors[((currentColorIndex + 1) % NumColors) + 1]
\* getNextCardColor: the color it returns
getNextCardColor == cardColors[currentColorIndex + 1]

\* getNextCardColor: the index it leaves behind
nextColorIndex(i) == (i + 1) % NumColors

\* revealCard taking the next color before it checks for a track
revealCardColorFirst ==
    /\ page = "running" /\ currentScreen = "game"
    /\ currentColorIndex' = nextColorIndex(currentColorIndex)
    /\ IF ~Truthy(currentTrack)
       THEN /\ alert' = AlertNoTrack
            /\ UNCHANGED <<currentScreen, artistName, releaseYear, songName,
                           revealCardClass, revealTracksPlayedText>>
       ELSE /\ artistName' = TrackArtist(currentTrack)
            /\ releaseYear' = IF Truthy(TrackYear(currentTrack))
                              THEN TrackYear(currentTrack) ELSE "Unknown"
            /\ songName' = TrackName(currentTrack)
            /\ revealTracksPlayedText' = tracksPlayed
            /\ revealCardClass' = getNextCardColor
            /\ showScreen("reveal")
            /\ alert' = NoAlert
    /\ UNCHANGED <<page, localStorage, currentTrack, tracksPlayed, audioSrc, audioPaused,
                   tracksPlayedText, listVars, pending>>

\* revealCard without the 'Unknown' default for a missing year
revealCardYearRaw ==
    /\ page = "running" /\ currentScreen = "game"
    /\ IF ~Truthy(currentTrack)
       THEN /\ alert' = AlertNoTrack
            /\ UNCHANGED <<currentScreen, revealVars, revealTracksPlayedText>>
       ELSE /\ artistName' = TrackArtist(currentTrack)
            /\ releaseYear' = TrackYear(currentTrack)
            /\ songName' = TrackName(currentTrack)
            /\ revealTracksPlayedText' = tracksPlayed
            /\ revealCardClass' = getNextCardColor
            /\ currentColorIndex' = nextColorIndex(currentColorIndex)
            /\ showScreen("reveal")
            /\ alert' = NoAlert
    /\ UNCHANGED <<page, localStorage, currentTrack, tracksPlayed, audioSrc, audioPaused,
                   tracksPlayedText, listVars, pending>>

revealCard ==
    /\ page = "running" /\ currentScreen = "game"
    /\ IF ~Truthy(currentTrack)
       THEN /\ alert' = AlertNoTrack
            /\ UNCHANGED <<currentScreen, revealVars, revealTracksPlayedText>>
       ELSE /\ artistName' = TrackArtist(currentTrack)
            /\ releaseYear' = IF Truthy(TrackYear(currentTrack))
                              THEN TrackYear(currentTrack) ELSE "Unknown"
            /\ songName' = TrackName(currentTrack)
            /\ revealTracksPlayedText' = tracksPlayed
            /\ revealCardClass' = getNextCardColor
            /\ currentColorIndex' = nextColorIndex(currentColorIndex)
            /\ showScreen("reveal")
            /\ alert' = NoAlert
    /\ UNCHANGED <<page, localStorage, currentTrack, tracksPlayed, audioSrc, audioPaused,
                   tracksPlayedText, listVars, pending>>

playNextSong ==
    /\ page = "running" /\ currentScreen = "reveal"
    /\ CanFetchTrack
    /\ showScreen("game")
    /\ playRandomTrack
    /\ UNCHANGED <<page, localStorage, gameVars, revealVars, listVars>>

\* window.open when the track carries a spotify_url; no controller state changes
openInSpotify ==
    /\ page = "running" /\ currentScreen = "reveal"
    /\ alert' = NoAlert
    /\ UNCHANGED <<page, localStorage, currentScreen, gameVars, revealVars, listVars, pending>>

\* resetBtn (game screen) and revealResetBtn (reveal screen)
resetGame ==
    /\ page = "running" /\ currentScreen \in {"game", "reveal"}
    /\ CanSend
    /\ pending' = Send("reset")
    /\ alert' = NoAlert
    /\ UNCHANGED <<page, localStorage, currentScreen, gameVars, revealVars, listVars>>

\* resetGame leaving the current track in place
resetGameRespKeepsTrack(o) ==
    /\ page = "running"
    /\ pending["reset"] > 0
    /\ pending' = Recv("reset")
    /\ IF o = "neterr"
       THEN UNCHANGED <<gameVars, currentScreen>>
       ELSE /\ tracksPlayed' = 0
            /\ UNCHANGED currentTrack
            /\ updateTrackCounter
            /\ audioPaused' = TRUE
            /\ audioSrc' = ""
            /\ showScreen("playlist")
    /\ alert' = NoAlert
    /\ UNCHANGED <<page, localStorage, revealVars, listVars>>

\* resetGame after await fetch: a rejected fetch skips to the catch block
resetGameResp(o) ==
    /\ page = "running"
    /\ pending["reset"] > 0
    /\ pending' = Recv("reset")
    /\ IF o = "neterr"
       THEN UNCHANGED <<gameVars, currentScreen>>
       ELSE /\ tracksPlayed' = 0
            /\ currentTrack' = Null
            /\ updateTrackCounter
            /\ audioPaused' = TRUE
            /\ audioSrc' = ""
            /\ showScreen("playlist")
    /\ alert' = NoAlert
    /\ UNCHANGED <<page, localStorage, revealVars, listVars>>

\* the header button working only with a stored session
playBtnClickNeedsSession ==
    /\ page = "running"
    /\ Truthy(localStorage)
    /\ showScreen("playlist")
    /\ alert' = NoAlert
    /\ UNCHANGED <<page, localStorage, gameVars, revealVars, listVars, pending>>

\* header playBtn
playBtnClick ==
    /\ page = "running"
    /\ showScreen("playlist")
    /\ alert' = NoAlert
    /\ UNCHANGED <<page, localStorage, gameVars, revealVars, listVars, pending>>

\* ---------------------------------------------------------- specification
\* the backend is opaque: every answer the fetch API can produce may arrive
Next ==
    \/ (\E sessionId \in UrlSessionIds : checkAuthStatus(sessionId)) /\ UNCHANGED observers
    \/ connectToSpotify /\ UNCHANGED observers
    \/ (\E o \in AuthOutcomes : connectToSpotifyResp(o)) /\ UNCHANGED observers
    \/ (\E o \in LoadOutcomes : loadPlaylistsResp(o)) /\ UNCHANGED observers
    \/ (\E i \in 1..MaxList : selectPlaylistClick(i)) /\ UNCHANGED observers
    \/ (\E url \in PromptResults : addPlaylist(url)) /\ UNCHANGED observers
    \/ (\E o \in StatusOutcomes : addPlaylistResp(o)) /\ UNCHANGED observers
    \/ (\E i \in 1..MaxList, onIcon \in BOOLEAN : removePlaylist(i, onIcon))
          /\ UNCHANGED observers
    \/ (\E o \in StatusOutcomes : removePlaylistResp(o)) /\ UNCHANGED observers
    \/ startGame /\ UNCHANGED observers
    \/ (\E o \in TrackOutcomes : playRandomTrackResp(o)) /\ UNCHANGED observers
    \/ revealCard /\ UNCHANGED observers
    \/ playNextSong /\ UNCHANGED observers
    \/ openInSpotify /\ UNCHANGED observers
    \/ resetGame /\ UNCHANGED observers
    \/ (\E o \in StatusOutcomes : resetGameResp(o)) /\ UNCHANGED observers
    \/ playBtnClick /\ UNCHANGED observers

Spec == Init /\ [][Next]_allVars

\* ------------------------------------------------- the backend of the spec
\* Spec sections 3 and 6: the backend owns the playlist collection; POST
\* /api/playlists adds one playlist, DELETE /api/playlists/{id} removes the
\* one named, GET /api/playlists answers the full collection.  A request is
\* served when the backend gets to it and its answer is delivered later; the
\* answers to requests in flight together may arrive in any order.
RemoveAt(s, k) == [j \in 1..(Len(s) - 1) |-> IF j < k THEN s[j] ELSE s[j + 1]]
Elems(s) == {s[j] : j \in 1..Len(s)}
Without(s, id) == SelectSeq(s, LAMBDA x : x # id)

\* POST /api/playlists served and answered: a playlist not yet held is
\* appended; a URL of one already held is refused
backendAdd ==
    IF Elems(backend) # PlaylistIds
    THEN /\ \E id \in PlaylistIds \ Elems(backend) : backend' = Append(backend, id)
         /\ addPlaylistResp("ok")
    ELSE /\ UNCHANGED backend
         /\ addPlaylistResp("notok")

\* DELETE /api/playlists/{id} served and answered
backendRemove(k) ==
    /\ k \in 1..Len(removeIds)
    /\ removeIds' = RemoveAt(removeIds, k)
    /\ IF removeIds[k] \in Elems(backend)
       THEN /\ backend' = Without(backend, removeIds[k])
            /\ removePlaylistResp("ok")
       ELSE /\ UNCHANGED backend
            /\ removePlaylistResp("notok")

\* GET /api/playlists served: the answer holds the collection as it is now
backendList ==
    /\ page = "running"
    /\ Len(snapshots) < pending["load"]
    /\ snapshots' = Append(snapshots, backend)
    /\ UNCHANGED <<vars, backend, removeIds, history>>

\* an answer to GET /api/playlists delivered to loadPlaylists
backendListDelivered(k) ==
    /\ k \in 1..Len(snapshots)
    /\ snapshots' = RemoveAt(snapshots, k)
    /\ loadPlaylistsResp([kind |-> "list", playlists |-> snapshots[k]])

\* the playlist screen against the backend of the spec, every request answered
\* with success or refusal and no network failure
NextBackend ==
    \/ (\E sessionId \in UrlSessionIds : checkAuthStatus(sessionId)) /\ UNCHANGED observers
    \/ playBtnClick /\ UNCHANGED observers
    \/ (\E i \in 1..MaxList : selectPlaylistClick(i)) /\ UNCHANGED observers
    \/ addPlaylist("https://playlist") /\ UNCHANGED observers
    \/ backendAdd /\ UNCHANGED <<snapshots, removeIds, history>>
    \/ \E i \in 1..MaxList, onIcon \in BOOLEAN :
          /\ removePlaylist(i, onIcon)
          /\ removeIds' = Append(removeIds, playlistList[i])
          /\ UNCHANGED <<backend, snapshots, history>>
    \/ (\E k \in 1..MaxInflight : backendRemove(k)) /\ UNCHANGED <<snapshots, history>>
    \/ backendList
    \/ (\E k \in 1..MaxInflight : backendListDelivered(k))
          /\ UNCHANGED <<backend, removeIds, history>>

SpecBackend == Init /\ [][NextBackend]_allVars

\* ------------------------------------------------- the history of a game
\* The handlers as in Spec, with the history variables recording which track
\* fetch an answer belongs to and whether the game has been reset.
backendVars == <<backend, snapshots, removeIds>>

\* startGame: a click ends the time after a reset; with a playlist selected
\* it issues a track fetch, which now is the one issued last
startGameHist ==
    /\ startGame
    /\ resetDone' = FALSE
    /\ IF Truthy(selectedPlaylist)
       THEN latestPending' = TRUE /\ shownLatest' = FALSE
       ELSE UNCHANGED <<latestPending, shownLatest>>

playNextSongHist ==
    /\ playNextSong
    /\ IF selectedPlaylist # Null
       THEN latestPending' = TRUE /\ shownLatest' = FALSE
       ELSE UNCHANGED <<latestPending, shownLatest>>
    /\ UNCHANGED resetDone

\* an answer to a track fetch is the answer to the one issued last, or to one
\* issued before it that is still in flight
playRandomTrackRespHist(o, toLatest) ==
    /\ playRandomTrackResp(o)
    /\ IF toLatest
       THEN /\ latestPending
            /\ latestPending' = FALSE
            /\ shownLatest' = (o.kind = "track")
       ELSE /\ pending["track"] > (IF latestPending THEN 1 ELSE 0)
            /\ shownLatest' = IF o.kind = "track" THEN FALSE ELSE shownLatest
            /\ UNCHANGED latestPending
    /\ UNCHANGED resetDone

resetGameRespHist(o) ==
    /\ resetGameResp(o)
    /\ IF o = "neterr"
       THEN UNCHANGED <<resetDone, shownLatest>>
       ELSE resetDone' = TRUE /\ shownLatest' = FALSE
    /\ UNCHANGED latestPending

NextHistory ==
    \/ (\E sessionId \in UrlSessionIds : checkAuthStatus(sessionId)) /\ UNCHANGED observers
    \/ connectToSpotify /\ UNCHANGED observers
    \/ (\E o \in AuthOutcomes : connectToSpotifyResp(o)) /\ UNCHANGED observers
    \/ (\E o \in LoadOutcomes : loadPlaylistsResp(o)) /\ UNCHANGED observers
    \/ (\E i \in 1..MaxList : selectPlaylistClick(i)) /\ UNCHANGED observers
    \/ (\E url \in PromptResults : addPlaylist(url)) /\ UNCHANGED observers
    \/ (\E o \in StatusOutcomes : addPlaylistResp(o)) /\ UNCHANGED observers
    \/ (\E i \in 1..MaxList, onIcon \in BOOLEAN : removePlaylist(i, onIcon))
          /\ UNCHANGED observers
    \/ (\E o \in StatusOutcomes : removePlaylistResp(o)) /\ UNCHANGED observers
    \/ startGameHist /\ UNCHANGED backendVars
    \/ (\E o \in TrackOutcomes, toLatest \in BOOLEAN : playRandomTrackRespHist(o, toLatest))
          /\ UNCHANGED backendVars
    \/ revealCard /\ UNCHANGED observers
    \/ playNextSongHist /\ UNCHANGED backendVars
    \/ openInSpotify /\ UNCHANGED observers
    \/ resetGame /\ UNCHANGED observers
    \/ (\E o \in StatusOutcomes : resetGameRespHist(o)) /\ UNCHANGED backendVars
    \/ playBtnClick /\ UNCHANGED observers

SpecHistory == Init /\ [][NextHistory]_allVars

TypeOK ==
    /\ page \in {"loading", "running", "away"}
    /\ currentScreen \in Screens
    /\ selectedPlaylist \in PlaylistIds \cup {Null}
    /\ currentTrack \in Tracks \cup {Null}
    /\ tracksPlayed \in 0..MaxPlays
    /\ currentColorIndex \in 0..(NumColors - 1)
    /\ selectedItems \subseteq 1..Len(playlistList)
    /\ PendingTotal <= MaxInflight

\* ------------------------------------------------------------------ claims

\* C1: every resetGame that has got its answer (success, non-2xx status or
\* network error) ends with the play counter 0, no current track, audio
\* stopped and the playlist screen active.
C1_ResetAlwaysResetsLocalState ==
    [][\A o \in StatusOutcomes :
          resetGameResp(o) =>
              /\ tracksPlayed' = 0
              /\ currentTrack' = Null
              /\ audioPaused' /\ audioSrc' = ""
              /\ currentScreen' = "playlist"]_vars

\* C2: whenever the game or the reveal screen is active a playlist is selected.
C2_PlaylistSelectedInGame ==
    currentScreen \in {"game", "reveal"} => selectedPlaylist # Null

C2_Witness ==
    currentScreen = "reveal" /\ selectedPlaylist # Null /\ tracksPlayed = MaxPlays

\* the screen changes of the spec's state machine
SessionEntry ==
    currentScreen = "connect" /\ currentScreen' = "playlist" /\ Truthy(localStorage')
GameEntry ==
    currentScreen = "playlist" /\ currentScreen' = "game" /\ selectedPlaylist # Null
RevealEntry ==
    currentScreen = "game" /\ currentScreen' = "reveal" /\ currentTrack # Null
NextRound ==
    currentScreen = "reveal" /\ currentScreen' = "game"
ResetEntry ==
    /\ currentScreen' = "playlist"
    /\ pending'["reset"] = pending["reset"] - 1
    /\ tracksPlayed' = 0 /\ currentTrack' = Null
\* the header button: the playlist screen is shown and nothing else changes
HeaderEntry ==
    /\ currentScreen' = "playlist"
    /\ UNCHANGED <<page, localStorage, gameVars, revealVars, listVars, pending>>

\* C3 (as stated): the active screen changes only by connect -> playlist with a
\* session present, playlist -> game with a selection, game -> reveal with a
\* track, reveal -> game, and any -> playlist as part of a reset.
C3_OnlyListedTransitions ==
    [][currentScreen' # currentScreen =>
          SessionEntry \/ GameEntry \/ RevealEntry \/ NextRound \/ ResetEntry]_vars

\* C3 (amended): the same changes, and also any screen -> playlist by the
\* header button, which checks no session and resets nothing.
C3_ListedTransitionsOrHeader ==
    [][currentScreen' # currentScreen =>
          \/ SessionEntry \/ GameEntry \/ RevealEntry \/ NextRound \/ ResetEntry
          \/ HeaderEntry]_vars

\* back on the playlist screen after a reveal and a reset
C3_Witness ==
    currentScreen = "playlist" /\ currentColorIndex > 0 /\ tracksPlayed = 0

\* C4: the play counter starts at 0; an answered track fetch adds exactly 1
\* when it carries a track and nothing otherwise; the only other change of the
\* counter is a completed reset setting it to 0.
C4_PlayCounter ==
    /\ tracksPlayed = 0
    /\ [][/\ \A o \in TrackOutcomes :
               playRandomTrackResp(o) =>
                   tracksPlayed' = IF o.kind = "track" THEN tracksPlayed + 1
                                   ELSE tracksPlayed
          /\ tracksPlayed' # tracksPlayed =>
               \/ /\ tracksPlayed' = tracksPlayed + 1
                  /\ pending'["track"] = pending["track"] - 1
                  /\ currentTrack' \in Tracks
               \/ /\ tracksPlayed' = 0
                  /\ pending'["reset"] = pending["reset"] - 1]_vars

\* the counter has reached the bound, one reveal and a further fetch later
C4_Witness ==
    tracksPlayed = MaxPlays /\ currentColorIndex > 0 /\ currentScreen = "game"

\* C5: startGame with no playlist selected sends no request, alerts, and
\* leaves the screen, the current track and the play counter alone.
C5_StartWithoutSelection ==
    [][startGame /\ selectedPlaylist = Null =>
          /\ alert' = AlertSelect
          /\ pending' = pending
          /\ UNCHANGED <<currentScreen, currentTrack, tracksPlayed>>]_vars

C5_Witness ==
    alert = AlertSelect /\ selectedPlaylist = Null /\ currentScreen = "playlist"

\* C6: revealCard with no track loaded alerts, does not show the reveal
\* screen and does not advance the color index.
C6_RevealWithoutTrack ==
    [][revealCard /\ currentTrack = Null =>
          /\ alert' = AlertNoTrack
          /\ currentScreen' = currentScreen /\ currentScreen' # "reveal"
          /\ currentColorIndex' = currentColorIndex]_vars

\* a reveal refused after an earlier reveal and a reset that cleared the track
C6_Witness ==
    /\ alert = AlertNoTrack /\ currentTrack = Null
    /\ currentScreen = "game" /\ currentColorIndex > 0

ShowsPlaylistAndLoads ==
    currentScreen' = "playlist" /\ pending' = Send("load")

\* C7 (as stated): a session_id present in the URL is persisted, loads the
\* playlists and shows the playlist screen; else a persisted token does the
\* same and stays as it is; else the connect screen, and no load.
C7_StartupByPresence ==
    [][\A sessionId \in UrlSessionIds :
          checkAuthStatus(sessionId) =>
              IF sessionId # Null
              THEN localStorage' = sessionId /\ ShowsPlaylistAndLoads
              ELSE IF localStorage # Null
              THEN localStorage' = localStorage /\ ShowsPlaylistAndLoads
              ELSE currentScreen' = "connect" /\ pending' = pending]_vars

\* C7 (amended): the same, with "present" read as "present and not empty":
\* an empty session_id counts as absent.
C7_StartupByNonEmptyValue ==
    [][\A sessionId \in UrlSessionIds :
          checkAuthStatus(sessionId) =>
              IF sessionId # Null /\ sessionId # ""
              THEN localStorage' = sessionId /\ ShowsPlaylistAndLoads
              ELSE IF localStorage # Null /\ localStorage # ""
              THEN localStorage' = localStorage /\ ShowsPlaylistAndLoads
              ELSE /\ currentScreen' = "connect" /\ pending' = pending
                   /\ localStorage' = localStorage]_vars

C7_Witness ==
    /\ page = "running" /\ localStorage = "abc123"
    /\ currentScreen = "playlist" /\ pending["load"] = 1 /\ PendingTotal = 1
    /\ playlistList = <<>>

\* C8: every answered track fetch that yields no track alerts the user.
C8_TrackFailureAlerts ==
    [][\A o \in TrackOutcomes :
          playRandomTrackResp(o) /\ o.kind # "track" => alert' # NoAlert]_vars

\* C9: every answered authorize request that yields no usable auth_url alerts
\* the user, navigates nowhere and is not sent again.
C9_AuthorizeFailureAlerts ==
    [][\A o \in AuthOutcomes \ {"url"} :
          connectToSpotifyResp(o) =>
              /\ alert' = AlertConnect
              /\ page' = page
              /\ pending' = Recv("authorize")]_vars

\* C10: addPlaylist with a non-empty URL sends one request; its success
\* answer starts exactly one playlist load and no alert, a non-success answer
\* or a network failure alerts and starts no load; an empty or cancelled
\* prompt sends nothing.
C10_AddPlaylist ==
    [][
        /\ \A url \in PromptResults :
             addPlaylist(url) =>
                 IF url = Null \/ url = ""
                 THEN pending' = pending
                 ELSE pending' = Send("add")
        /\ \A o \in StatusOutcomes :
             addPlaylistResp(o) =>
                 IF o = "ok"
                 THEN /\ alert' = NoAlert
                      /\ pending' = Answer("add", "load")
                 ELSE /\ alert' \in {AlertAddCheck, AlertAddRetry}
                      /\ pending' = Recv("add")
    ]_vars

C10_Witness ==
    alert = AlertAddCheck /\ pending["load"] = 0 /\ pending["add"] = 0

\* C11: once every request is answered, the rendered list is the collection
\* the backend holds, in its order, and shows no identifier twice.
C11_RenderedMatchesBackend ==
    page = "running" /\ PendingTotal = 0 =>
        playlistList = backend /\ IsDistinct(playlistList)

\* C12: a selectPlaylist call on a rendered item (a click on the item, or on
\* the icon of its remove button) leaves exactly that item marked selected and
\* its playlist as the selected playlist; a second click on the item that is
\* already the selection changes nothing.
C12_SelectExclusiveIdempotent ==
    [][
        /\ \A i \in 1..MaxList :
             (selectPlaylistClick(i) \/ removePlaylist(i, TRUE)) =>
                 /\ selectedItems' = {i}
                 /\ playlistList' = playlistList
                 /\ selectedPlaylist' = playlistList[i]
        /\ \A i \in 1..MaxList :
             (/\ selectPlaylistClick(i)
              /\ selectedItems = {i} /\ selectedPlaylist = playlistList[i]
              /\ alert = NoAlert) => UNCHANGED vars
    ]_vars

\* the second item is the selection, after the first one was
C12_Witness ==
    /\ Len(playlistList) = 2 /\ selectedItems = {2}
    /\ selectedPlaylist = playlistList[2] /\ currentScreen = "playlist"

RECURSIVE AdvanceTimes(_, _)
AdvanceTimes(i, n) == IF n = 0 THEN i ELSE AdvanceTimes(nextColorIndex(i), n - 1)

C14_RevealShowsTrack ==
    [][revealCard /\ currentTrack # Null =>
          /\ currentScreen' = "reveal"
          /\ artistName' = TrackArtist(currentTrack)
          /\ songName' = TrackName(currentTrack)
          /\ revealTracksPlayedText' = tracksPlayed
          /\ releaseYear' = IF TrackYear(currentTrack) = Null THEN "Unknown"
                            ELSE TrackYear(currentTrack)]_vars

\* the track without a year, revealed
C14_Witness ==
    /\ currentScreen = "reveal" /\ currentTrack = "T2"
    /\ songName = "name:T2" /\ releaseYear = "Unknown"

controllerState ==
    <<playlistList, selectedPlaylist, currentTrack, tracksPlayed, currentScreen>>

\* the answers that bring loadPlaylists no collection
LoadFailures == {o \in LoadOutcomes : o.kind # "list"}
\* the track answers whose playback the browser rejects
RejectedPlays == {o \in TrackOutcomes : o.kind = "track" /\ ~o.playOk}

\* C15: a loadPlaylists that gets no collection and a removePlaylist that gets
\* no success raise no alert and leave the rendered list, the selection, the
\* current track, the play counter and the screen as they are; a playback
\* start the browser rejects raises no alert either and changes nothing of
\* what the track answer it belongs to has set.
C15_SilentFailures ==
    [][
        /\ \A o \in LoadFailures :
             loadPlaylistsResp(o) =>
                 alert' = NoAlert /\ UNCHANGED controllerState
        /\ \A o \in {"notok", "neterr"} :
             removePlaylistResp(o) =>
                 /\ alert' = NoAlert /\ UNCHANGED controllerState
                 /\ pending' = Recv("remove")
        /\ \A o \in RejectedPlays :
             playRandomTrackResp(o) =>
                 /\ alert' = NoAlert
                 /\ currentTrack' = o.track /\ tracksPlayed' = tracksPlayed + 1
                 /\ UNCHANGED <<playlistList, selectedPlaylist, currentScreen>>
    ]_vars

\* a track is loaded into the player and the player is not playing: its
\* play() was rejected, and nothing was alerted
C15_Witness ==
    /\ audioSrc = "stream:T1" /\ audioPaused /\ currentTrack = "T1"
    /\ alert = NoAlert /\ currentScreen = "game"

\* a click the active screen accepts; the handlers that always send a request
\* are enabled in the model while its caps on requests in flight and on
\* tracks played leave room
ScreenActionEnabled ==
    CASE currentScreen = "connect" -> ENABLED connectToSpotify \/ PendingTotal = MaxInflight
      [] currentScreen = "playlist" -> ENABLED addPlaylist(Null) /\ (ENABLED startGame \/ ~CanFetchTrack)
      [] currentScreen = "game" -> ENABLED revealCard
      [] currentScreen = "reveal" -> ENABLED openInSpotify

\* C16: while the page is up, whatever has failed or is still in flight, the
\* active screen accepts a click, and the header button is enabled and shows
\* the playlist screen in one step.
C16_AlwaysInteractive ==
    /\ [](page = "running" => ScreenActionEnabled /\ ENABLED playBtnClick)
    /\ [][playBtnClick => currentScreen' = "playlist"]_vars

\* the game screen with every request slot taken by resets that got no answer
C16_Witness ==
    /\ currentScreen = "game" /\ pending["reset"] = MaxInflight
    /\ currentTrack = Null

\* C17: from the reset of the game by resetGame until the next click on
\* startGame, the play counter is 0, there is no current track and the audio
\* is stopped, whatever answers arrive in between.
C17_ResetHolds ==
    resetDone => tracksPlayed = 0 /\ currentTrack = Null /\ audioPaused

\* C18: the track a reveal shows is the answer to the track fetch issued last.
C18_RevealShowsLatest ==
    [][revealCard /\ currentTrack # Null => shownLatest]_vars

\* C19: a selected playlist is in the rendered list, and its item is the one
\* item marked selected.
C19_SelectionRendered ==
    selectedPlaylist # Null =>
        \E i \in 1..Len(playlistList) :
            playlistList[i] = selectedPlaylist /\ selectedItems = {i}

\* C20: the audio player's source is empty or is the stream URL of the
\* current track.
C20_AudioIsCurrentTrack ==
    \/ audioSrc = ""
    \/ currentTrack # Null /\ audioSrc = TrackStreamUrl(currentTrack)

====
